---- MODULE Spec2Model ----
(***************************************************************************)
(* Model of my_agent/agent.py: the AgentState record, the four node        *)
(* functions (call_model, update_memory, calc_node, tool_node), the router *)
(* should_continue_or_calc and the StateGraph wiring that sequences them.  *)
(*                                                                         *)
(* Python strings are sequences of one-character strings, so that          *)
(* str.lower(), str.strip(), the substring test `in`, f-string formatting  *)
(* and eval() are computed character by character.                         *)
(***************************************************************************)
EXTENDS Integers, Sequences, FiniteSets, TLC

(***************************************************************************)
(* Bounds of the model.                                                    *)
(***************************************************************************)
\* longest operator/digit fragment put into a user message
MaxExprLen == 3
\* node executions in one run of the graph
MaxSteps == 6
\* direct applications of node functions in the node-level specification
MaxCalls == 2

(***************************************************************************)
(* String literals of the program.                                         *)
(***************************************************************************)
S_calc == <<"c", "a", "l", "c">>
S_calculate == <<"c", "a", "l", "c", "u", "l", "a", "t", "e">>
S_quit == <<"q", "u", "i", "t">>
S_end == <<"e", "n", "d">>
S_user == <<"u", "s", "e", "r">>
S_assistant == <<"a", "s", "s", "i", "s", "t", "a", "n", "t">>
S_CalculatorResult ==
  <<"C", "a", "l", "c", "u", "l", "a", "t", "o", "r", " ", "r", "e", "s", "u", "l", "t", ":", " ">>
S_CalculatorError ==
  <<"C", "a", "l", "c", "u", "l", "a", "t", "o", "r", " ", "e", "r", "r", "o", "r", ":", " ">>
S_NoKey ==
  <<"E", "r", "r", "o", "r", ":", " ", "O", "P", "E", "N", "A", "I", "_", "A", "P", "I", "_",
    "K", "E", "Y", " ", "n", "o", "t", " ", "s", "e", "t", ".">>
S_Pretend ==
  <<"P", "r", "e", "t", "e", "n", "d", " ", "w", "e", " ", "u", "s", "e", "d", " ", "a", " ",
    "t", "o", "o", "l", " ", "h", "e", "r", "e", "!">>

(***************************************************************************)
(* Character classes and the str methods the program calls.                *)
(***************************************************************************)
UpperChars ==
  <<"A", "B", "C", "D", "E", "F", "G", "H", "I", "J", "K", "L", "M",
    "N", "O", "P", "Q", "R", "S", "T", "U", "V", "W", "X", "Y", "Z">>
LowerChars ==
  <<"a", "b", "c", "d", "e", "f", "g", "h", "i", "j", "k", "l", "m",
    "n", "o", "p", "q", "r", "s", "t", "u", "v", "w", "x", "y", "z">>
DigitChars == <<"0", "1", "2", "3", "4", "5", "6", "7", "8", "9">>
Whitespace == {" ", "\t", "\n", "\r"}

Range(f) == {f[i] : i \in DOMAIN f}
IsDigit(c) == c \in Range(DigitChars)
IsLetter(c) == c \in Range(UpperChars) \cup Range(LowerChars) \cup {"_"}
DigitVal(c) == (CHOOSE i \in 1..10 : DigitChars[i] = c) - 1

\* str.lower() on one character
LowerChar(c) ==
  IF c \in Range(UpperChars)
    THEN LowerChars[CHOOSE i \in 1..26 : UpperChars[i] = c]
    ELSE c
\* str.lower()
lower(s) == [i \in 1..Len(s) |-> LowerChar(s[i])]

\* Python's `sub in s` on strings
In(sub, s) ==
  \E i \in 1..(Len(s) - Len(sub) + 1) : SubSeq(s, i, i + Len(sub) - 1) = sub

\* s.startswith(p)
StartsWith(s, p) == Len(s) >= Len(p) /\ SubSeq(s, 1, Len(p)) = p

\* str.strip(): drop leading and trailing whitespace
strip(s) ==
  LET keep == {i \in 1..Len(s) : s[i] \notin Whitespace}
  IN IF keep = {} THEN <<>>
     ELSE LET lo == CHOOSE i \in keep : \A j \in keep : i <= j
              hi == CHOOSE i \in keep : \A j \in keep : i >= j
          IN SubSeq(s, lo, hi)

\* str(n) for an int
RECURSIVE NatStr(_)
NatStr(n) ==
  IF n < 10 THEN <<DigitChars[n + 1]>>
  ELSE NatStr(n \div 10) \o <<DigitChars[(n % 10) + 1]>>
IntStr(n) == IF n < 0 THEN <<"-">> \o NatStr(0 - n) ELSE NatStr(n)

(***************************************************************************)
(* Python's eval() on the expressions the model feeds it: decimal integer  *)
(* literals, identifiers, the binary operators + - %, unary + and -, and   *)
(* blanks.  A value is an int, the site builtin `quit` (a Quitter object)  *)
(* or the exception the evaluation raised.                                 *)
(***************************************************************************)
IntV(n) == [k |-> "int", n |-> n, e |-> "", m |-> <<>>]
ObjV == [k |-> "obj", n |-> 0, e |-> "", m |-> <<>>]
ExcV(e, m) == [k |-> "exc", n |-> 0, e |-> e, m |-> m]

M_InvalidSyntax ==
  <<"i", "n", "v", "a", "l", "i", "d", " ", "s", "y", "n", "t", "a", "x", " ", "(", "<", "s",
    "t", "r", "i", "n", "g", ">", ",", " ", "l", "i", "n", "e", " ", "1", ")">>
M_ModuloByZero ==
  <<"i", "n", "t", "e", "g", "e", "r", " ", "m", "o", "d", "u", "l", "o", " ", "b", "y", " ",
    "z", "e", "r", "o">>
M_Name == <<"n", "a", "m", "e", " ", "'">>
M_NotDefined == <<"'", " ", "i", "s", " ", "n", "o", "t", " ", "d", "e", "f", "i", "n", "e", "d">>
M_Unsupported ==
  <<"u", "n", "s", "u", "p", "p", "o", "r", "t", "e", "d", " ", "o", "p", "e", "r", "a", "n",
    "d", " ", "t", "y", "p", "e", "(", "s", ")", " ", "f", "o", "r", " ">>
M_BadUnary ==
  <<"b", "a", "d", " ", "o", "p", "e", "r", "a", "n", "d", " ", "t", "y", "p", "e", " ", "f",
    "o", "r", " ", "u", "n", "a", "r", "y", " ">>
M_Quitter ==
  <<"U", "s", "e", " ", "q", "u", "i", "t", "(", ")", " ", "o", "r", " ", "C", "t", "r", "l",
    "-", "D", " ", "(", "i", ".", "e", ".", " ", "E", "O", "F", ")", " ", "t", "o", " ", "e",
    "x", "i", "t">>

SyntaxErrorV == ExcV("SyntaxError", M_InvalidSyntax)
TypeName(v) == IF v.k = "int" THEN <<"i", "n", "t">> ELSE <<"Q", "u", "i", "t", "t", "e", "r">>

\* variant of PyMod with the remainder of C: the sign of the dividend
PyMod_Truncated(a, b) ==
  LET r == (IF a < 0 THEN 0 - a ELSE a) % (IF b < 0 THEN 0 - b ELSE b)
  IN IF a < 0 THEN 0 - r ELSE r

\* a % b on Python ints, b # 0: the result takes the sign of b
PyMod(a, b) == IF b > 0 THEN a % b ELSE 0 - ((0 - a) % (0 - b))

\* tokens: a number, a name, an operator character, or a lexical error
NumTok(n) == [t |-> "num", n |-> n, s |-> <<>>]
NameTok(s) == [t |-> "name", n |-> 0, s |-> s]
OpTok(c) == [t |-> "op", n |-> 0, s |-> <<c>>]
BadTok == [t |-> "bad", n |-> 0, s |-> <<>>]

RECURSIVE DigitRunEnd(_, _)
DigitRunEnd(s, i) ==
  IF i < Len(s) /\ IsDigit(s[i + 1]) THEN DigitRunEnd(s, i + 1) ELSE i
RECURSIVE NameRunEnd(_, _)
NameRunEnd(s, i) ==
  IF i < Len(s) /\ (IsLetter(s[i + 1]) \/ IsDigit(s[i + 1])) THEN NameRunEnd(s, i + 1) ELSE i
RECURSIVE NumVal(_)
NumVal(d) ==
  IF d = <<>> THEN 0 ELSE 10 * NumVal(SubSeq(d, 1, Len(d) - 1)) + DigitVal(d[Len(d)])

\* a decimal literal: no letter may follow it, and a literal with a leading
\* zero must be all zeros
NumberTok(s, i, j) ==
  LET d == SubSeq(s, i, j)
  IN IF j < Len(s) /\ IsLetter(s[j + 1]) THEN BadTok
     ELSE IF Len(d) > 1 /\ d[1] = "0" /\ (\E k \in 1..Len(d) : d[k] # "0") THEN BadTok
     ELSE NumTok(NumVal(d))

RECURSIVE Tokenize(_, _)
Tokenize(s, i) ==
  IF i > Len(s) THEN <<>>
  ELSE IF s[i] \in Whitespace THEN Tokenize(s, i + 1)
  ELSE IF IsDigit(s[i])
    THEN LET j == DigitRunEnd(s, i) IN <<NumberTok(s, i, j)>> \o Tokenize(s, j + 1)
  ELSE IF IsLetter(s[i])
    THEN LET j == NameRunEnd(s, i) IN <<NameTok(SubSeq(s, i, j))>> \o Tokenize(s, j + 1)
  ELSE IF s[i] \in {"+", "-", "%"} THEN <<OpTok(s[i])>> \o Tokenize(s, i + 1)
  ELSE <<BadTok>> \o Tokenize(s, i + 1)

\* name lookup in the scope of calc_node: module globals, locals, builtins
Lookup(name) ==
  IF name = S_quit THEN ObjV
  ELSE ExcV("NameError", M_Name \o name \o M_NotDefined)

\* operands are evaluated left to right; the first exception wins
BinOp(op, a, b) ==
  IF a.k = "exc" THEN a
  ELSE IF b.k = "exc" THEN b
  ELSE IF a.k = "obj" \/ b.k = "obj"
    THEN ExcV("TypeError",
              M_Unsupported \o <<op, ":", " ", "'">> \o TypeName(a)
                \o <<"'", " ", "a", "n", "d", " ", "'">> \o TypeName(b) \o <<"'">>)
  ELSE IF op = "+" THEN IntV(a.n + b.n)
  ELSE IF op = "-" THEN IntV(a.n - b.n)
  ELSE IF b.n = 0 THEN ExcV("ZeroDivisionError", M_ModuloByZero)
  ELSE IntV(PyMod(a.n, b.n))

UnOp(op, a) ==
  IF a.k = "exc" THEN a
  ELSE IF a.k = "obj"
    THEN ExcV("TypeError", M_BadUnary \o <<op, ":", " ", "'">> \o TypeName(a) \o <<"'">>)
  ELSE IF op = "-" THEN IntV(0 - a.n)
  ELSE a

\* recursive descent: expr := term (('+'|'-') term)*, term := factor ('%' factor)*,
\* factor := ('+'|'-') factor | NUMBER | NAME
Parsed(p, v) == [ok |-> TRUE, p |-> p, v |-> v]
NoParse == [ok |-> FALSE, p |-> 0, v |-> SyntaxErrorV]
IsOp(toks, p, ops) == p <= Len(toks) /\ toks[p].t = "op" /\ toks[p].s[1] \in ops

RECURSIVE ParseFactor(_, _)
ParseFactor(toks, p) ==
  IF p > Len(toks) THEN NoParse
  ELSE IF IsOp(toks, p, {"+", "-"})
    THEN LET r == ParseFactor(toks, p + 1)
         IN IF r.ok THEN Parsed(r.p, UnOp(toks[p].s[1], r.v)) ELSE NoParse
  ELSE IF toks[p].t = "num" THEN Parsed(p + 1, IntV(toks[p].n))
  ELSE IF toks[p].t = "name" THEN Parsed(p + 1, Lookup(toks[p].s))
  ELSE NoParse

RECURSIVE TermRest(_, _)
TermRest(toks, r) ==
  IF ~r.ok THEN NoParse
  ELSE IF IsOp(toks, r.p, {"%"})
    THEN LET f == ParseFactor(toks, r.p + 1)
         IN IF f.ok THEN TermRest(toks, Parsed(f.p, BinOp("%", r.v, f.v))) ELSE NoParse
  ELSE r
ParseTerm(toks, p) == TermRest(toks, ParseFactor(toks, p))

RECURSIVE ExprRest(_, _)
ExprRest(toks, r) ==
  IF ~r.ok THEN NoParse
  ELSE IF IsOp(toks, r.p, {"+", "-"})
    THEN LET f == ParseTerm(toks, r.p + 1)
         IN IF f.ok THEN ExprRest(toks, Parsed(f.p, BinOp(toks[r.p].s[1], r.v, f.v)))
            ELSE NoParse
  ELSE r
ParseExpr(toks, p) == ExprRest(toks, ParseTerm(toks, p))

\* eval(source): a SyntaxError when the source does not tokenize or parse,
\* otherwise the value or the exception of the evaluation
eval(src) ==
  LET toks == Tokenize(src, 1)
      r == ParseExpr(toks, 1)
  IN IF \E i \in 1..Len(toks) : toks[i].t = "bad" THEN SyntaxErrorV
     ELSE IF r.ok /\ r.p = Len(toks) + 1 THEN r.v
     ELSE SyntaxErrorV

\* str(x) for a value, str(e) for an exception: what an f-string inserts
str(v) ==
  IF v.k = "int" THEN IntStr(v.n)
  ELSE IF v.k = "obj" THEN M_Quitter
  ELSE v.m

(***************************************************************************)
(* The AgentState record and the node functions.                           *)
(***************************************************************************)
\* AgentState(user_input)
AgentState(user_input) ==
  [user_input |-> user_input,
   last_llm_output |-> <<>>,
   last_tool_output |-> <<>>,
   conversation_history |-> <<>>]

\* what llm(prompt) does: return a text or raise (network, authentication, ...)
LLMText(r) == [raises |-> FALSE, text |-> r]
LLMRaises == [raises |-> TRUE, text |-> <<>>]

\* variant of call_model without the early return on a missing credential
call_model_NoReturn(s, openai_api_key, llm) ==
  IF llm.raises
    THEN [s |-> s, called |-> TRUE, raised |-> TRUE]
  ELSE [s |-> [s EXCEPT !.last_llm_output = llm.text], called |-> TRUE, raised |-> FALSE]

\* call_model, given the credential and what llm(prompt) does when it is
\* reached.  s is the state on return, called tells whether llm(prompt) was
\* invoked, raised whether an exception left the function.
call_model(s, openai_api_key, llm) ==
  IF openai_api_key = <<>>
    THEN [s |-> [s EXCEPT !.last_llm_output = S_NoKey], called |-> FALSE, raised |-> FALSE]
  ELSE IF llm.raises
    THEN [s |-> s, called |-> TRUE, raised |-> TRUE]
  ELSE [s |-> [s EXCEPT !.last_llm_output = llm.text], called |-> TRUE, raised |-> FALSE]

\* variant of update_memory that records the tool output as the reply
update_memory_ToolReply(s) ==
  LET user_msg == s.user_input
      llm_reply == s.last_tool_output
  IN [s EXCEPT !.conversation_history =
        Append(Append(@, <<S_user, user_msg>>), <<S_assistant, llm_reply>>)]

\* variant of update_memory that keeps only the latest exchange
update_memory_Overwrite(s) ==
  LET user_msg == s.user_input
      llm_reply == s.last_llm_output
  IN [s EXCEPT !.conversation_history =
        << <<S_user, user_msg>>, <<S_assistant, llm_reply>> >>]

\* variant of update_memory with the two appends exchanged
update_memory_ReplyFirst(s) ==
  LET user_msg == s.user_input
      llm_reply == s.last_llm_output
  IN [s EXCEPT !.conversation_history =
        Append(Append(@, <<S_assistant, llm_reply>>), <<S_user, user_msg>>)]

update_memory(s) ==
  LET user_msg == s.user_input
      llm_reply == s.last_llm_output
  IN [s EXCEPT !.conversation_history =
        Append(Append(@, <<S_user, user_msg>>), <<S_assistant, llm_reply>>)]

\* variant of calc_node whose except clause names ZeroDivisionError only
calc_node_NarrowExcept(s) ==
  LET user_msg == strip(s.user_input)
      result == eval(user_msg)
  IN IF result.k = "exc" /\ result.e = "ZeroDivisionError"
       THEN [s |-> [s EXCEPT !.last_tool_output = S_CalculatorError \o str(result)],
             raised |-> FALSE]
     ELSE IF result.k = "exc"
       THEN [s |-> s, raised |-> TRUE]
     ELSE [s |-> [s EXCEPT !.last_tool_output = S_CalculatorResult \o str(result)],
           raised |-> FALSE]

\* calc_node: s is the state on return, raised tells whether an exception
\* left the function (the except clause catches every Exception eval raises)
calc_node(s) ==
  LET user_msg == strip(s.user_input)
      result == eval(user_msg)
  IN IF result.k = "exc"
       THEN [s |-> [s EXCEPT !.last_tool_output = S_CalculatorError \o str(result)],
             raised |-> FALSE]
       ELSE [s |-> [s EXCEPT !.last_tool_output = S_CalculatorResult \o str(result)],
             raised |-> FALSE]

\* variant of tool_node that also consumes the user message
tool_node_ConsumesInput(s) ==
  [s EXCEPT !.last_tool_output = S_Pretend, !.user_input = <<>>]

tool_node(s) == [s EXCEPT !.last_tool_output = S_Pretend]

\* variants of the router with a plausible slip: the quit/end test placed
\* first, the "end" keyword forgotten, the lower() forgotten
should_continue_or_calc_QuitFirst(s) ==
  LET user_msg == lower(s.user_input)
  IN IF In(S_quit, user_msg) \/ In(S_end, user_msg) THEN "end"
     ELSE IF In(S_calc, user_msg) \/ In(S_calculate, user_msg) THEN "calc"
     ELSE "continue"
should_continue_or_calc_NoEnd(s) ==
  LET user_msg == lower(s.user_input)
  IN IF In(S_calc, user_msg) \/ In(S_calculate, user_msg) THEN "calc"
     ELSE IF In(S_quit, user_msg) THEN "end"
     ELSE "continue"
should_continue_or_calc_NoLower(s) ==
  LET user_msg == s.user_input
  IN IF In(S_calc, user_msg) \/ In(S_calculate, user_msg) THEN "calc"
     ELSE IF In(S_quit, user_msg) \/ In(S_end, user_msg) THEN "end"
     ELSE "continue"

should_continue_or_calc(s) ==
  LET user_msg == lower(s.user_input)
  IN IF In(S_calc, user_msg) \/ In(S_calculate, user_msg) THEN "calc"
     ELSE IF In(S_quit, user_msg) \/ In(S_end, user_msg) THEN "end"
     ELSE "continue"

\* the conditional edges out of "agent"
Edges == [calc |-> "calc", continue |-> "update_memory", end |-> "END"]

(***************************************************************************)
(* Inputs: user messages built from a keyword phrase and an operator/digit *)
(* fragment, or from a fragment surrounded by blanks; the credential; the   *)
(* texts the chat model may return.                                        *)
(***************************************************************************)
ExprChars == {"0", "2", "+", "-", "%"}
RECURSIVE SeqsUpTo(_, _)
SeqsUpTo(S, n) ==
  IF n = 0 THEN {<<>>}
  ELSE LET shorter == SeqsUpTo(S, n - 1)
       IN shorter \cup {Append(q, c) : q \in shorter, c \in S}
Fragments == SeqsUpTo(ExprChars, MaxExprLen)
Phrases ==
  { <<>>,
    <<"c", "a", "l", "c">>,
    <<"c", "a", "l", "c", " ">>,
    <<"c", "a", "l", "c", "u", "l", "a", "t", "e", " ">>,
    <<"C", "A", "L", "C", " ">>,
    <<"q", "u", "i", "t">>,
    <<"Q", "u", "i", "t", " ">>,
    <<"e", "n", "d">>,
    <<"q", "u", "i", "t", " ", "c", "a", "l", "c", " ">>,
    <<"c", "a", "l", "e", "n", "d", "a", "r">>,
    <<"h", "i", " ">>,
    <<"2", " ">>,
    <<"-", "2", " ">> }
Inputs ==
  {p \o f : p \in Phrases, f \in Fragments}
    \cup {<<" ">> \o f \o <<" ">> : f \in Fragments}
Credentials == {<<>>, <<"s", "k">>}
Responses == {<<"H", "e", "l", "l", "o">>, <<"4">>}
LLMOutcomes == {LLMText(r) : r \in Responses} \cup {LLMRaises}

(***************************************************************************)
(* State.                                                                  *)
(*   state           the AgentState object passed from node to node        *)
(*   openai_api_key  the OPENAI_API_KEY of the environment                 *)
(*   node            where the run stands: the node to execute next,       *)
(*                   "route" when the router is to be consulted, "END",    *)
(*                   "raised" when an exception left a node, "direct" when *)
(*                   the node functions are called outside the graph       *)
(*   ran             the node function executed last                       *)
(*   decision        what the router returned last                         *)
(*   steps           node functions executed so far                        *)
(*   model_calls     invocations of llm(prompt) so far                     *)
(*   replies         last_llm_output after each completed call_model       *)
(***************************************************************************)
VARIABLES state, openai_api_key, node, ran, decision, steps, model_calls, replies
vars == <<state, openai_api_key, node, ran, decision, steps, model_calls, replies>>

Start(n) ==
  /\ \E u \in Inputs : state = AgentState(u)
  /\ openai_api_key \in Credentials
  /\ node = n
  /\ ran = ""
  /\ decision = ""
  /\ steps = 0
  /\ model_calls = 0
  /\ replies = <<>>

\* variant of the wiring that consults the router before the model
Init_RouterFirst == Start("route")

\* graph.invoke(AgentState(user_input)): the run starts at the entry point
Init == Start("agent")

\* call_model applied to the state; after is the position when it returns
RunCallModel(after) ==
  \E llm \in LLMOutcomes :
    LET r == call_model(state, openai_api_key, llm)
    IN /\ state' = r.s
       /\ model_calls' = model_calls + (IF r.called THEN 1 ELSE 0)
       /\ replies' = IF r.raised THEN replies ELSE Append(replies, r.s.last_llm_output)
       /\ node' = IF r.raised THEN "raised" ELSE after
       /\ ran' = "agent"
       /\ steps' = steps + 1
       /\ UNCHANGED <<openai_api_key, decision>>

\* calc_node applied to the state
RunCalcNode(after) ==
  LET r == calc_node(state)
  IN /\ state' = r.s
     /\ node' = IF r.raised THEN "raised" ELSE after
     /\ ran' = "calc"
     /\ steps' = steps + 1
     /\ UNCHANGED <<openai_api_key, decision, model_calls, replies>>

\* update_memory applied to the state
RunUpdateMemory(after) ==
  /\ state' = update_memory(state)
  /\ node' = after
  /\ ran' = "update_memory"
  /\ steps' = steps + 1
  /\ UNCHANGED <<openai_api_key, decision, model_calls, replies>>

\* tool_node applied to the state
RunToolNode(after) ==
  /\ state' = tool_node(state)
  /\ node' = after
  /\ ran' = "tool"
  /\ steps' = steps + 1
  /\ UNCHANGED <<openai_api_key, decision, model_calls, replies>>

\* node "agent"
AgentNode ==
  /\ node = "agent"
  /\ steps < MaxSteps
  /\ RunCallModel("route")

\* the conditional edges after "agent"
Route ==
  /\ node = "route"
  /\ decision' = should_continue_or_calc(state)
  /\ node' = Edges[decision']
  /\ UNCHANGED <<state, openai_api_key, ran, steps, model_calls, replies>>

\* variant of the wiring with the edge after "update_memory" going back to "agent"
UpdateMemoryNode_ToAgent ==
  /\ node = "update_memory"
  /\ steps < MaxSteps
  /\ RunUpdateMemory("agent")

\* node "update_memory", then the edge to "tool"
UpdateMemoryNode ==
  /\ node = "update_memory"
  /\ steps < MaxSteps
  /\ RunUpdateMemory("tool")

\* node "tool", then the edge back to "agent"
ToolNode ==
  /\ node = "tool"
  /\ steps < MaxSteps
  /\ RunToolNode("agent")

\* node "calc", then the edge back to "agent"
CalcNode ==
  /\ node = "calc"
  /\ steps < MaxSteps
  /\ RunCalcNode("agent")

Next == AgentNode \/ Route \/ UpdateMemoryNode \/ ToolNode \/ CalcNode

Spec == Init /\ [][Next]_vars

(***************************************************************************)
(* The node functions called directly on a state, in any order, as a unit  *)
(* test or another caller of the module would.                             *)
(***************************************************************************)
InitDirect == Start("direct")

DirectCallModel ==
  /\ node = "direct"
  /\ steps < MaxCalls
  /\ RunCallModel("direct")

DirectUpdateMemory ==
  /\ node = "direct"
  /\ steps < MaxCalls
  /\ RunUpdateMemory("direct")

DirectCalc ==
  /\ node = "direct"
  /\ steps < MaxCalls
  /\ RunCalcNode("direct")

DirectTool ==
  /\ node = "direct"
  /\ steps < MaxCalls
  /\ RunToolNode("direct")

NextDirect == DirectCallModel \/ DirectUpdateMemory \/ DirectCalc \/ DirectTool

SpecDirect == InitDirect /\ [][NextDirect]_vars

TypeOK ==
  /\ state.user_input \in Inputs
  /\ openai_api_key \in Credentials
  /\ node \in {"agent", "route", "update_memory", "tool", "calc", "END", "raised", "direct"}
  /\ ran \in {"", "agent", "update_memory", "tool", "calc"}
  /\ decision \in {"", "calc", "continue", "end"}
  /\ steps \in 0..(MaxSteps + MaxCalls)
  /\ model_calls \in 0..steps

(***************************************************************************)
(* Vocabulary of the properties.                                           *)
(***************************************************************************)
\* the lowercased message contains the keyword
Mentions(u, w) == In(w, lower(u))

\* src tokenizes and parses as an expression
Parses(src) ==
  LET toks == Tokenize(src, 1)
      r == ParseExpr(toks, 1)
  IN /\ \A i \in 1..Len(toks) : toks[i].t # "bad"
     /\ r.ok
     /\ r.p = Len(toks) + 1

\* src is a well-formed literal arithmetic expression: it parses and is made
\* of integer literals and operators only
IsArithmetic(src) ==
  /\ Parses(src)
  /\ \A i \in 1..Len(src) : IsDigit(src[i]) \/ src[i] \in {"+", "-", "%", " "}

\* the router is being consulted in this step
Routing == node = "route" /\ node' # "route"

\* the named node function is executed in this step
Runs(name) == steps' = steps + 1 /\ ran' = name

(***************************************************************************)
(* C1.  A graph run started from user_input = "calc" followed by a         *)
(* well-formed arithmetic expression (the documented example is            *)
(* AgentState("calc 2+2")) leaves 'Calculator result: <value>' in          *)
(* last_tool_output once the calc node has run.                            *)
(***************************************************************************)
C1_CalcExampleYieldsResult ==
  LET u == state.user_input
      e == strip(SubSeq(u, Len(S_calc) + 1, Len(u)))
  IN (ran = "calc" /\ StartsWith(u, S_calc) /\ IsArithmetic(e) /\ eval(e).k = "int")
       => state.last_tool_output = S_CalculatorResult \o IntStr(eval(e).n)

(***************************************************************************)
(* C2.  Whenever the lowercased user_input contains "calc", whatever else  *)
(* it contains, the router returns "calc" and the calc node is the next    *)
(* node of the run.                                                        *)
(***************************************************************************)
C2_CalcKeywordRoutesToCalc ==
  [][(Routing /\ Mentions(state.user_input, S_calc))
       => (decision' = "calc" /\ node' = "calc")]_vars

\* the calc node ran on a message that also says "quit"
C2_Witness ==
  /\ ran = "calc"
  /\ decision = "calc"
  /\ Mentions(state.user_input, S_calc)
  /\ Mentions(state.user_input, S_quit)

(***************************************************************************)
(* C3.  As claimed: whenever user_input contains "quit" or "end", the      *)
(* router returns "end" and the run goes from agent to END.                *)
(***************************************************************************)
C3_QuitOrEndAlwaysEnds ==
  [][(Routing /\ (Mentions(state.user_input, S_quit) \/ Mentions(state.user_input, S_end)))
       => (decision' = "end" /\ node' = "END")]_vars

(***************************************************************************)
(* C3, amended.  Whenever the lowercased user_input contains "quit" or     *)
(* "end" and does not contain "calc", the router returns "end" and the run *)
(* goes from agent to END; a message that also contains "calc" is routed   *)
(* to calc.                                                                *)
(***************************************************************************)
C3_QuitOrEndWithoutCalcEnds ==
  [][(Routing /\ (Mentions(state.user_input, S_quit) \/ Mentions(state.user_input, S_end)))
       => IF Mentions(state.user_input, S_calc)
            THEN decision' = "calc" /\ node' = "calc"
            ELSE decision' = "end" /\ node' = "END"]_vars

\* the run ended on a message that says "end" but not "quit"
C3_Witness ==
  /\ node = "END"
  /\ decision = "end"
  /\ Mentions(state.user_input, S_end)
  /\ ~Mentions(state.user_input, S_quit)

RECURSIVE Transcript(_, _)
Transcript(u, rs) ==
  IF rs = <<>> THEN <<>>
  ELSE Transcript(u, SubSeq(rs, 1, Len(rs) - 1))
         \o << <<S_user, u>>, <<S_assistant, rs[Len(rs)]>> >>

C5_OnePairPerTurnAnyRoute ==
  node \in {"agent", "END"}
    => state.conversation_history = Transcript(state.user_input, replies)

(***************************************************************************)
(* C5, amended.  Every turn the router sends to "continue" (agent,         *)
(* update_memory, tool) adds exactly one user/assistant pair to            *)
(* conversation_history, and the pairs appear in the order of the turns;   *)
(* a turn routed to "calc" or "end" leaves the history unchanged.          *)
(***************************************************************************)
C5_OnePairPerContinueTurn ==
  node \in {"agent", "END"}
    => state.conversation_history =
         IF decision = "continue" THEN Transcript(state.user_input, replies) ELSE <<>>

\* two turns were processed and recorded
C5_Witness ==
  /\ node = "agent"
  /\ decision = "continue"
  /\ Len(replies) = 2
  /\ replies[1] # replies[2]
  /\ Len(state.conversation_history) = 4

(***************************************************************************)
(* C6.  No exception leaves call_model or calc_node: whatever is raised    *)
(* while the model is invoked or the expression evaluated is caught and    *)
(* stored as a string, and the run goes on.                                *)
(***************************************************************************)
C6_NoExceptionLeavesANode == node # "raised"

(***************************************************************************)
(* C7.  With OPENAI_API_KEY absent or empty, call_model sets               *)
(* last_llm_output to 'Error: OPENAI_API_KEY not set.' and returns without *)
(* invoking the model, leaving user_input, last_tool_output and            *)
(* conversation_history unchanged.                                         *)
(***************************************************************************)
C7_MissingKeyShortCircuits ==
  [][(Runs("agent") /\ openai_api_key = <<>>)
       => /\ state' = [state EXCEPT !.last_llm_output = S_NoKey]
          /\ model_calls' = model_calls
          /\ node' # "raised"]_vars

\* call_model returned the fixed string on a state another node had written
C7_Witness ==
  /\ ran = "agent"
  /\ openai_api_key = <<>>
  /\ model_calls = 0
  /\ state.last_llm_output = S_NoKey
  /\ state.last_tool_output # <<>>

(***************************************************************************)
(* C8.  As claimed: on a turn whose input is handled by the calc node, the *)
(* model-call node is not executed for that input.                         *)
(***************************************************************************)
C8_CalcTurnSkipsModel == ran = "calc" => replies = <<>>

(***************************************************************************)
(* C8, amended.  Every input is first handed to the model-call node; when  *)
(* the router then selects "calc" it is also evaluated by the calculator:  *)
(* each execution of the calc node directly follows an execution of the    *)
(* model-call node for the same input, which invokes the chat model        *)
(* whenever the credential is set.                                         *)
(***************************************************************************)
C8_CalcTurnRunsModelFirst ==
  /\ node = "calc"
       => (ran = "agent" /\ decision = "calc" /\ steps = 2 * Len(replies) - 1)
  /\ ran = "calc"
       => /\ steps = 2 * Len(replies)
          /\ model_calls = (IF openai_api_key = <<>> THEN 0 ELSE Len(replies))

\* the calculator ran after the chat model was invoked for the same input
C8_Witness ==
  /\ ran = "calc"
  /\ model_calls >= 1
  /\ StartsWith(state.last_tool_output, S_CalculatorError)

(***************************************************************************)
(* C9.  As claimed: calc_node applied to a state whose stripped user_input *)
(* is a well-formed literal arithmetic expression sets last_tool_output to *)
(* 'Calculator result: ' followed by a value.                              *)
(***************************************************************************)
C9_WellFormedYieldsResult ==
  [][(Runs("calc") /\ IsArithmetic(strip(state.user_input)))
       => StartsWith(state'.last_tool_output, S_CalculatorResult)]_vars

(***************************************************************************)
(* C9, amended.  calc_node applied to a state whose stripped user_input is *)
(* a well-formed literal arithmetic expression whose evaluation raises no  *)
(* exception sets last_tool_output to 'Calculator result: ' followed by    *)
(* the expression's value ('2+2' gives 'Calculator result: 4'); when the   *)
(* evaluation raises (a modulo by zero) it is 'Calculator error: '         *)
(* followed by the exception's message.                                    *)
(***************************************************************************)
\* expressions with their values, worked out by hand
KnownValues ==
  { << <<"2", "+", "2">>, <<"4">> >>,
    << <<" ", "2", "+", "2", " ">>, <<"4">> >>,
    << <<"2", " ", "+", "2">>, <<"4">> >>,
    << <<"0", "-", "2">>, <<"-", "2">> >>,
    << <<"2", "-", "-", "2">>, <<"4">> >>,
    << <<"2", "2", "%", "2", "0">>, <<"2">> >>,
    << <<"-", "2", " ", "%", "2", "0">>, <<"1", "8">> >>,
    << <<"2", " ", "%", "-", "2", "0">>, <<"-", "1", "8">> >>,
    << <<"-", "2", " ", "-", "2", "0">>, <<"-", "2", "2">> >>,
    << <<"2", " ", "-", "2", "%", "2">>, <<"2">> >>,
    << <<"0", "0">>, <<"0">> >> }

C9_EvaluableYieldsValue ==
  [][(Runs("calc") /\ IsArithmetic(strip(state.user_input)))
       => LET v == eval(strip(state.user_input))
          IN /\ v.k # "obj"
             /\ v.k = "int" => state'.last_tool_output = S_CalculatorResult \o IntStr(v.n)
             /\ v.k = "exc" =>
                  /\ v.e = "ZeroDivisionError"
                  /\ state'.last_tool_output = S_CalculatorError \o M_ModuloByZero
             /\ \A kv \in KnownValues :
                  state.user_input = kv[1]
                    => state'.last_tool_output = S_CalculatorResult \o kv[2]]_vars

\* calc_node answered '-2 %20' with 18
C9_Witness ==
  /\ ran = "calc"
  /\ state.user_input = <<"-", "2", " ", "%", "2", "0">>
  /\ state.last_tool_output = S_CalculatorResult \o <<"1", "8">>

(***************************************************************************)
(* C10.  calc_node applied to a state whose user_input is a malformed      *)
(* expression (such as '2+') does not raise: it sets last_tool_output to a *)
(* string beginning with 'Calculator error:' and leaves every other field  *)
(* unchanged.                                                              *)
(***************************************************************************)
S_CalculatorErrorColon == SubSeq(S_CalculatorError, 1, Len(S_CalculatorError) - 1)

C10_MalformedYieldsError ==
  [][(Runs("calc") /\ ~Parses(strip(state.user_input)))
       => /\ node' # "raised"
          /\ StartsWith(state'.last_tool_output, S_CalculatorErrorColon)
          /\ state' = [state EXCEPT !.last_tool_output = state'.last_tool_output]]_vars

\* calc_node reported an error for '2+' on a state that had a reply and a history
C10_Witness ==
  /\ ran = "calc"
  /\ state.user_input = <<"2", "+">>
  /\ StartsWith(state.last_tool_output, S_CalculatorErrorColon)
  /\ state.conversation_history # <<>>

(***************************************************************************)
(* C11.  conversation_history is append-only: across any sequence of node  *)
(* executions of a run the history of an earlier state is a prefix of the  *)
(* history of every later state; no node removes, reorders or rewrites an  *)
(* entry.  Stated on each step, which gives it for every later state.      *)
(***************************************************************************)
IsPrefix(a, b) == Len(a) <= Len(b) /\ SubSeq(b, 1, Len(a)) = a

C11_HistoryAppendOnly ==
  [][IsPrefix(state.conversation_history, state'.conversation_history)]_vars

\* update_memory appended a different exchange to a history that held one
C11_Witness ==
  /\ ran = "update_memory"
  /\ Len(state.conversation_history) = 4
  /\ state.conversation_history[4] # state.conversation_history[2]

(***************************************************************************)
(* C12.  When user_input looks like a math expression (such as '2+2',      *)
(* without the word "calc"), the router returns "calc" and the run goes to *)
(* the calc node.                                                          *)
(***************************************************************************)
C12_MathExpressionRoutesToCalc ==
  [][(Routing /\ IsArithmetic(strip(state.user_input)))
       => (decision' = "calc" /\ node' = "calc")]_vars

(***************************************************************************)
(* C13.  A run reaches END exactly when the initial user_input is routed   *)
(* to "end" at the first routing decision, and then after exactly one      *)
(* execution of the agent node; on every other input the run keeps         *)
(* returning to the agent node and never reaches END.  As a statement      *)
(* about where a run can stand: END only on an "end" input after one agent *)
(* execution; on an "end" input nowhere but on the way from agent to END;  *)
(* on any other input never at END and never stopped.                      *)
(***************************************************************************)
C13_EndIffRoutedToEnd ==
  LET r == should_continue_or_calc(state)
  IN /\ node = "END" => (r = "end" /\ steps = 1 /\ Len(replies) = 1)
     /\ r = "end" => (node \in {"agent", "route", "END"} /\ steps <= 1)
     /\ r # "end" => node \notin {"END", "raised"}

(***************************************************************************)
(* C14.  Node ordering of every run: the first node executed is agent;     *)
(* update_memory is immediately followed by tool, tool by agent and calc   *)
(* by agent; calc, update_memory and END are entered only directly after   *)
(* agent; and one node executes at a time, the one the run stands at.      *)
(***************************************************************************)
C14_NodeOrder ==
  /\ [](/\ ran = "" => node = "agent"
        /\ ran = "update_memory" => node = "tool"
        /\ ran = "tool" => node = "agent"
        /\ ran = "calc" => node = "agent"
        /\ node \in {"calc", "update_memory", "END"} => ran = "agent")
  /\ [][/\ steps' \in {steps, steps + 1}
        /\ steps' = steps + 1 => ran' = node]_vars

\* two full turns through agent, update_memory and tool
C14_Witness ==
  /\ steps = 6
  /\ ran = "tool"
  /\ node = "agent"

(***************************************************************************)
(* C15.  In every reachable state of a run conversation_history has even   *)
(* length and consists of consecutive pairs ("user", u), ("assistant", a), *)
(* u being user_input and a the last_llm_output of the agent execution     *)
(* just before that update_memory step (the missing-credential string      *)
(* included); only update_memory changes the history, so it stays empty    *)
(* on inputs routed to "calc" or "end".                                    *)
(***************************************************************************)
C15_HistoryIsTranscript ==
  /\ [](LET h == state.conversation_history
            k == Len(h) \div 2
        IN /\ Len(h) % 2 = 0
           /\ k <= Len(replies)
           /\ h = Transcript(state.user_input, SubSeq(replies, 1, k))
           /\ decision = "continue" => k >= Len(replies) - 1
           /\ ran = "update_memory" =>
                (k = Len(replies) /\ h[Len(h)] = <<S_assistant, state.last_llm_output>>)
           /\ should_continue_or_calc(state) \in {"calc", "end"} => h = <<>>)
  /\ [][state'.conversation_history # state.conversation_history
          => Runs("update_memory")]_vars

\* two exchanges with different replies were recorded
C15_Witness ==
  /\ ran = "update_memory"
  /\ Len(state.conversation_history) = 4
  /\ state.conversation_history[2] # state.conversation_history[4]
  /\ state.conversation_history[1] = <<S_user, state.user_input>>

(***************************************************************************)
(* C16.  Frame of each node: no node changes user_input, so it stays the   *)
(* initial message and the router returns the same value on every visit;   *)
(* call_model changes only last_llm_output, update_memory only             *)
(* conversation_history, calc_node and tool_node only last_tool_output,    *)
(* and tool_node always sets it to 'Pretend we used a tool here!'.         *)
(***************************************************************************)
C16_NodeFrames ==
  [][/\ state'.user_input = state.user_input
     /\ (Routing /\ decision # "") => decision' = decision
     /\ Runs("agent") =>
          state' = [state EXCEPT !.last_llm_output = state'.last_llm_output]
     /\ Runs("update_memory") =>
          state' = [state EXCEPT !.conversation_history = state'.conversation_history]
     /\ Runs("calc") =>
          state' = [state EXCEPT !.last_tool_output = state'.last_tool_output]
     /\ Runs("tool") =>
          state' = [state EXCEPT !.last_tool_output = S_Pretend]]_vars

\* the router was consulted a second time, after every node of the
\* "continue" route had written its field
C16_Witness ==
  /\ node = "update_memory"
  /\ Len(replies) = 2
  /\ decision = "continue"
  /\ state.last_tool_output = S_Pretend
  /\ state.conversation_history # <<>>
  /\ state.user_input # <<>>

====
